---- MODULE Spec2Model ----
(***************************************************************************)
(* Model of scylla/src/response/request_response.rs: the conversion of one *)
(* decoded response frame (QueryResponse) into a NonErrorQueryResponse and *)
(* then into a QueryResult, along every entry point of the file.           *)
(*                                                                         *)
(* One behaviour is the processing of one response by the task that owns   *)
(* it.  Values are moved, never copied: `pc` records which value the task  *)
(* still owns.  Option<T> is modelled as a sequence of length 0 or 1 and   *)
(* Result<T, E> as a record with an `ok` flag.                             *)
(***************************************************************************)
EXTENDS Integers, Sequences, FiniteSets, TLC

\* ------------------------------------------------------------------ bounds
NumRowSets      == 2   \* distinct raw row sets a Rows result may carry
NumPagingStates == 2   \* distinct continuation tokens of HasMorePages
NumPayloads     == 1   \* distinct SchemaChange / SetKeyspace payloads
NumDbErrors     == 2   \* distinct server error codes
NumReasons      == 1   \* distinct server error messages
NumUuids        == 1   \* distinct tracing ids
NumWarningTexts == 2   \* distinct warning strings
MaxWarnings     == 2   \* longest warnings vector
NumCoordinators == 2   \* distinct coordinators a caller may pass

\* ------------------------------------------------------------- Option / Result
None == <<>>
Some(x) == <<x>>
IsSome(o) == o # <<>>
Unwrap(o) == o[1]

Ok(v) == [ok |-> TRUE, val |-> v]
Err(e) == [ok |-> FALSE, err |-> e]

\* ------------------------------------------------------------------ data
\* PagingStateResponse: NoMorePages | HasMorePages { state }
NoMorePages == [tag |-> "NoMorePages"]
HasMorePages(t) == [tag |-> "HasMorePages", state |-> t]
PagingStateResponse == {NoMorePages} \cup {HasMorePages(t) : t \in 1..NumPagingStates}

\* PagingStateResponse::finished
finished(paging_state) == paging_state.tag = "NoMorePages"

\* result::ResultWithDeserializedMetadata
ResultRows == {[tag |-> "Rows", rows |-> r, paging_state_response |-> p] :
                  r \in 1..NumRowSets, p \in PagingStateResponse}
ResultSetKeyspace == {[tag |-> "SetKeyspace", payload |-> k] : k \in 1..NumPayloads}
ResultSchemaChange == {[tag |-> "SchemaChange", payload |-> s] : s \in 1..NumPayloads}
ResultOther == {[tag |-> "Void"], [tag |-> "Prepared"]}
ResultWithDeserializedMetadata ==
    ResultRows \cup ResultSetKeyspace \cup ResultSchemaChange \cup ResultOther

\* The variants of a response that are neither Error nor Result.
NonResultVariants ==
    {"Ready", "Authenticate", "AuthSuccess", "AuthChallenge", "Supported", "Event"}

\* NonErrorResponseWithDeserializedMetadata
NonErrorResponseWithDeserializedMetadata ==
    {[variant |-> "Result", result |-> r] : r \in ResultWithDeserializedMetadata}
    \cup {[variant |-> v] : v \in NonResultVariants}

\* ResponseWithDeserializedMetadata: the non-error variants plus Error.
ErrorResponses == {[variant |-> "Error", error |-> e, reason |-> m] :
                      e \in 1..NumDbErrors, m \in 1..NumReasons}
ResponseWithDeserializedMetadata ==
    NonErrorResponseWithDeserializedMetadata \cup ErrorResponses

\* Vec<String> of at most MaxWarnings elements.
RECURSIVE SeqsUpTo(_, _)
SeqsUpTo(S, n) ==
    IF n = 0 THEN {<<>>}
    ELSE LET shorter == SeqsUpTo(S, n - 1)
         IN  shorter \cup {Append(s, x) : s \in shorter, x \in S}
Warnings == SeqsUpTo(1..NumWarningTexts, MaxWarnings)

TracingIds == {None} \cup {Some(u) : u \in 1..NumUuids}
\* Option<HashMap<String, Bytes>>: absent, or one of two maps.
CustomPayloads == {None, Some("payload")}
Coordinators == 1..NumCoordinators

\* struct QueryResponse
QueryResponse ==
    [response : ResponseWithDeserializedMetadata, tracing_id : TracingIds,
     warnings : Warnings, custom_payload : CustomPayloads]

\* ---------------------------------------------------- collaborators' functions
\* ResponseWithDeserializedMetadata::into_non_error_response: Error(e) is the
\* failure, every other variant is carried over to the same variant.
into_non_error_response(response) ==
    IF response.variant = "Error"
    THEN Err([error |-> response.error, reason |-> response.reason])
    ELSE Ok(response)

\* From<response::Error> for RequestAttemptError, applied by `?`.
ServerError(e) == [kind |-> "ServerError", error |-> e.error, reason |-> e.reason]

\* NonErrorResponseWithDeserializedMetadata::to_response_kind -> CqlResponseKind
to_response_kind(response) ==
    CASE response.variant = "Ready"         -> "READY"
      [] response.variant = "Result"        -> "RESULT"
      [] response.variant = "Authenticate"  -> "AUTHENTICATE"
      [] response.variant = "AuthSuccess"   -> "AUTH_SUCCESS"
      [] response.variant = "AuthChallenge" -> "AUTH_CHALLENGE"
      [] response.variant = "Supported"     -> "SUPPORTED"
      [] response.variant = "Event"         -> "EVENT"

\* QueryResult::new
QueryResult_new(coordinator, raw_rows, tracing_id, warnings) ==
    [raw_rows |-> raw_rows, request_coordinator |-> Some(coordinator),
     tracing_id |-> tracing_id, warnings |-> warnings]

\* QueryResult::new_with_unknown_coordinator
QueryResult_new_with_unknown_coordinator(raw_rows, tracing_id, warnings) ==
    [raw_rows |-> raw_rows, request_coordinator |-> None,
     tracing_id |-> tracing_id, warnings |-> warnings]

UnexpectedResponse(kind) == [kind |-> "UnexpectedResponse", response_kind |-> kind]
NonfinishedPagingState == [kind |-> "NonfinishedPagingState"]

\* ------------------------------------------------------------ pure functions
\* Faulty variant: the server error is reported as an unexpected response kind.
into_non_error_query_response_WrongError(self) ==
    LET r == into_non_error_response(self.response)
    IN  IF r.ok
        THEN Ok([response |-> r.val, tracing_id |-> self.tracing_id,
                 warnings |-> self.warnings])
        ELSE Err(UnexpectedResponse("ERROR"))

\* Faulty variant: the warnings are not moved into the NonErrorQueryResponse.
into_non_error_query_response_DropsWarnings(self) ==
    LET r == into_non_error_response(self.response)
    IN  IF r.ok
        THEN Ok([response |-> r.val, tracing_id |-> self.tracing_id,
                 warnings |-> <<>>])
        ELSE Err(ServerError(r.err))

\* QueryResponse::into_non_error_query_response
into_non_error_query_response(self) ==
    LET r == into_non_error_response(self.response)
    IN  IF r.ok
        THEN Ok([response |-> r.val, tracing_id |-> self.tracing_id,
                 warnings |-> self.warnings])
        ELSE Err(ServerError(r.err))

\* Faulty variant: the match arm names the wrong Result subtype as well.
as_set_keyspace_WrongArm(self) ==
    IF self.response.variant = "Result"
       /\ self.response.result.tag \in {"SetKeyspace", "SchemaChange"}
    THEN Some(self.response.result.payload)
    ELSE None

\* NonErrorQueryResponse::as_set_keyspace
as_set_keyspace(self) ==
    IF self.response.variant = "Result" /\ self.response.result.tag = "SetKeyspace"
    THEN Some(self.response.result.payload)
    ELSE None

\* NonErrorQueryResponse::as_schema_change
as_schema_change(self) ==
    IF self.response.variant = "Result" /\ self.response.result.tag = "SchemaChange"
    THEN Some(self.response.result.payload)
    ELSE None

\* Faulty variants of the assembler's match:
\*   forgets_cursor: the Rows arm yields NoMorePages instead of its cursor;
\*   named_only:     only SchemaChange and SetKeyspace take the second arm;
\*   swallows:       the catch-all arm yields (None, NoMorePages) too.
AssemblerVariant(self, request_coordinator, forgets_cursor, named_only, swallows) ==
    LET response == self.response
        build(raw_rows, paging_state_response) ==
            Ok([result |->
                    IF IsSome(request_coordinator)
                    THEN QueryResult_new(Unwrap(request_coordinator), raw_rows,
                                         self.tracing_id, self.warnings)
                    ELSE QueryResult_new_with_unknown_coordinator(raw_rows,
                                         self.tracing_id, self.warnings),
                paging_state |-> paging_state_response])
    IN  IF response.variant = "Result" /\ response.result.tag = "Rows"
        THEN build(Some(response.result.rows),
                   IF forgets_cursor THEN NoMorePages
                   ELSE response.result.paging_state_response)
        ELSE IF /\ response.variant = "Result"
                /\ named_only => response.result.tag \in {"SchemaChange", "SetKeyspace"}
        THEN build(None, NoMorePages)
        ELSE IF swallows THEN build(None, NoMorePages)
        ELSE Err(UnexpectedResponse(to_response_kind(response)))

Assembler_ForgetsCursor(self, request_coordinator) ==
    AssemblerVariant(self, request_coordinator, TRUE, FALSE, FALSE)

Assembler_NamedResultsOnly(self, request_coordinator) ==
    AssemblerVariant(self, request_coordinator, FALSE, TRUE, FALSE)

Assembler_SwallowsNonResult(self, request_coordinator) ==
    AssemblerVariant(self, request_coordinator, FALSE, FALSE, TRUE)

\* NonErrorQueryResponse::into_query_result_and_paging_state_with_maybe_unknown_coordinator
into_query_result_and_paging_state_with_maybe_unknown_coordinator(self, request_coordinator) ==
    LET response == self.response
        tracing_id == self.tracing_id
        warnings == self.warnings
        build(raw_rows, paging_state_response) ==
            Ok([result |->
                    IF IsSome(request_coordinator)
                    THEN QueryResult_new(Unwrap(request_coordinator), raw_rows,
                                         tracing_id, warnings)
                    ELSE QueryResult_new_with_unknown_coordinator(raw_rows,
                                         tracing_id, warnings),
                paging_state |-> paging_state_response])
    IN  IF response.variant = "Result" /\ response.result.tag = "Rows"
        THEN build(Some(response.result.rows), response.result.paging_state_response)
        ELSE IF response.variant = "Result"
        THEN build(None, NoMorePages)
        ELSE Err(UnexpectedResponse(to_response_kind(response)))

\* NonErrorQueryResponse::into_query_result_and_paging_state
into_query_result_and_paging_state(self, request_coordinator) ==
    into_query_result_and_paging_state_with_maybe_unknown_coordinator(
        self, Some(request_coordinator))

\* NonErrorQueryResponse::into_query_result_with_maybe_unknown_coordinator,
\* its return value alone (the diagnostic it emits is modelled by LogError).
into_query_result_with_maybe_unknown_coordinator(self, request_coordinator) ==
    LET r == into_query_result_and_paging_state_with_maybe_unknown_coordinator(
                 self, request_coordinator)
    IN  IF ~r.ok THEN r
        ELSE IF ~finished(r.val.paging_state) THEN Err(NonfinishedPagingState)
        ELSE Ok(r.val.result)

\* NonErrorQueryResponse::into_query_result
into_query_result(self, request_coordinator) ==
    into_query_result_with_maybe_unknown_coordinator(self, Some(request_coordinator))

\* NonErrorQueryResponse::into_query_result_with_unknown_coordinator
into_query_result_with_unknown_coordinator(self) ==
    into_query_result_with_maybe_unknown_coordinator(self, None)

\* ------------------------------------------------------------------ state
VARIABLES
    pc,          \* position of the task that processes the response
    envelope,    \* the QueryResponse received from the frame codec
    classified,  \* None, or Some(result of into_non_error_query_response)
    set_keyspace,   \* None, or Some(what as_set_keyspace returned)
    schema_change,  \* None, or Some(what as_schema_change returned)
    entry,       \* the assembly entry point called, "" before the call
    coordinator, \* the Coordinator argument of that call, None if it has none
    pending,     \* None, or Some((result, paging_state)) held by the unpaged guard
    ret,         \* None, or Some(the Result the entry point returned)
    log          \* the diagnostics emitted through tracing::error!

vars == <<pc, envelope, classified, set_keyspace, schema_change, entry,
          coordinator, pending, ret, log>>

\* The NonErrorQueryResponse produced by classification.
Self == Unwrap(classified).val

Init ==
    /\ pc = "received"
    /\ envelope \in QueryResponse
    /\ classified = None
    /\ set_keyspace = None
    /\ schema_change = None
    /\ entry = ""
    /\ coordinator = None
    /\ pending = None
    /\ ret = None
    /\ log = <<>>

\* The caller classifies the envelope; a ServerError ends the processing.
Classify ==
    /\ pc = "received"
    /\ LET r == into_non_error_query_response(envelope)
       IN  /\ classified' = Some(r)
           /\ pc' = IF r.ok THEN "classified" ELSE "failed"
    /\ UNCHANGED <<envelope, set_keyspace, schema_change, entry, coordinator,
                   pending, ret, log>>

\* The two projections borrow the response; it stays owned and unchanged.
AsSetKeyspace ==
    /\ pc = "classified"
    /\ set_keyspace = None
    /\ set_keyspace' = Some(as_set_keyspace(Self))
    /\ UNCHANGED <<pc, envelope, classified, schema_change, entry, coordinator,
                   pending, ret, log>>

AsSchemaChange ==
    /\ pc = "classified"
    /\ schema_change = None
    /\ schema_change' = Some(as_schema_change(Self))
    /\ UNCHANGED <<pc, envelope, classified, set_keyspace, entry, coordinator,
                   pending, ret, log>>

\* The paged entry point: one call, no guard.
IntoQueryResultAndPagingState(c) ==
    /\ pc = "classified"
    /\ entry' = "into_query_result_and_paging_state"
    /\ coordinator' = Some(c)
    /\ ret' = Some(into_query_result_and_paging_state(Self, c))
    /\ pc' = "done"
    /\ UNCHANGED <<envelope, classified, set_keyspace, schema_change, pending, log>>

\* Lines 108-111 of the unpaged wrapper: the inner call and its `?`.
CallAssembler(name, arg, request_coordinator) ==
    LET r == into_query_result_and_paging_state_with_maybe_unknown_coordinator(
                 Self, request_coordinator)
    IN  /\ pc = "classified"
        /\ entry' = name
        /\ coordinator' = arg
        /\ IF r.ok
           THEN /\ pending' = Some(r.val)
                /\ ret' = ret
                /\ pc' = "guard"
           ELSE /\ pending' = pending
                /\ ret' = Some(r)
                /\ pc' = "done"
        /\ UNCHANGED <<envelope, classified, set_keyspace, schema_change, log>>

\* Faulty variant: the caller's coordinator is not passed on.
IntoQueryResult_LosesCoordinator(c) ==
    CallAssembler("into_query_result", Some(c), None)

\* The unpaged entry point with a known coordinator.
IntoQueryResult(c) ==
    CallAssembler("into_query_result", Some(c), Some(c))

\* Faulty variant: the unknown-coordinator entry point returns the paged
\* assembly's QueryResult without the guard.
IntoQueryResultWithUnknownCoordinator_Unguarded ==
    LET r == into_query_result_and_paging_state_with_maybe_unknown_coordinator(Self, None)
    IN  /\ pc = "classified"
        /\ entry' = "into_query_result_with_unknown_coordinator"
        /\ coordinator' = None
        /\ ret' = Some(IF r.ok THEN Ok(r.val.result) ELSE r)
        /\ pc' = "done"
        /\ UNCHANGED <<envelope, classified, set_keyspace, schema_change, pending, log>>

\* The unpaged entry point with an unknown coordinator.
IntoQueryResultWithUnknownCoordinator ==
    CallAssembler("into_query_result_with_unknown_coordinator", None, None)

\* Line 113 and line 121: the guard finds the paging state finished.
GuardFinished ==
    /\ pc = "guard"
    /\ finished(Unwrap(pending).paging_state)
    /\ ret' = Some(Ok(Unwrap(pending).result))
    /\ pc' = "done"
    /\ UNCHANGED <<envelope, classified, set_keyspace, schema_change, entry,
                   coordinator, pending, log>>

\* Faulty variant: the guard returns the QueryResult and drops the cursor.
GuardNonfinished_DropsCursor ==
    /\ pc = "guard"
    /\ ~finished(Unwrap(pending).paging_state)
    /\ ret' = Some(Ok(Unwrap(pending).result))
    /\ pc' = "done"
    /\ UNCHANGED <<envelope, classified, set_keyspace, schema_change, entry,
                   coordinator, pending, log>>

\* Faulty variant: the guard fails without emitting the diagnostic.
GuardNonfinished_Silent ==
    /\ pc = "guard"
    /\ ~finished(Unwrap(pending).paging_state)
    /\ pc' = "return_err"
    /\ UNCHANGED <<envelope, classified, set_keyspace, schema_change, entry,
                   coordinator, pending, ret, log>>

\* Line 113: the guard finds a continuation cursor.
GuardNonfinished ==
    /\ pc = "guard"
    /\ ~finished(Unwrap(pending).paging_state)
    /\ pc' = "log"
    /\ UNCHANGED <<envelope, classified, set_keyspace, schema_change, entry,
                   coordinator, pending, ret, log>>

\* Lines 114-117: error!(...)
LogError ==
    /\ pc = "log"
    /\ log' = Append(log, [level |-> "ERROR", message |-> "nonfinished paging state"])
    /\ pc' = "return_err"
    /\ UNCHANGED <<envelope, classified, set_keyspace, schema_change, entry,
                   coordinator, pending, ret>>

\* Line 118: return Err(NonfinishedPagingState)
ReturnNonfinished ==
    /\ pc = "return_err"
    /\ ret' = Some(Err(NonfinishedPagingState))
    /\ pc' = "done"
    /\ UNCHANGED <<envelope, classified, set_keyspace, schema_change, entry,
                   coordinator, pending, log>>

Next ==
    \/ Classify
    \/ AsSetKeyspace
    \/ AsSchemaChange
    \/ \E c \in Coordinators : IntoQueryResultAndPagingState(c)
    \/ \E c \in Coordinators : IntoQueryResult(c)
    \/ IntoQueryResultWithUnknownCoordinator
    \/ GuardFinished
    \/ GuardNonfinished
    \/ LogError
    \/ ReturnNonfinished

Spec == Init /\ [][Next]_vars

\* ------------------------------------------------------------ properties
UnpagedEntries == {"into_query_result", "into_query_result_with_unknown_coordinator"}
PagedEntry == "into_query_result_and_paging_state"
Returned == Unwrap(ret)
\* The QueryResult inside a successful return value.
ReturnedQueryResult == IF entry = PagedEntry THEN Returned.val.result ELSE Returned.val
IsResult(response) == response.variant = "Result"
IsRows(response) == IsResult(response) /\ response.result.tag = "Rows"
HasMore(response) ==
    IsRows(response) /\ response.result.paging_state_response.tag = "HasMorePages"

\* C1: an unpaged conversion of a Result response fails with
\* NonfinishedPagingState exactly when the response is Rows with HasMorePages;
\* otherwise it succeeds and the QueryResult holds the response's row set (none
\* for a non-Rows result).  No QueryResult is returned when the cursor is
\* HasMorePages.
UnpagedFailsIffHasMorePages ==
    (pc = "done" /\ entry \in UnpagedEntries /\ IsResult(Self.response)) =>
        /\ (~Returned.ok /\ Returned.err = NonfinishedPagingState)
               <=> HasMore(Self.response)
        /\ Returned.ok <=> ~HasMore(Self.response)
        /\ Returned.ok =>
               Returned.val.raw_rows =
                   IF IsRows(Self.response) THEN Some(Self.response.result.rows)
                   ELSE None

UnpagedRejectsHasMorePages ==
    /\ pc = "done"
    /\ entry = "into_query_result"
    /\ HasMore(Self.response)
    /\ Returned = Err(NonfinishedPagingState)

\* C2: the paged conversion of Rows(R, cursor) succeeds with row set Some(R) and
\* a paging state equal to cursor, whether HasMorePages(token) or NoMorePages.
PagedRowsKeepCursor ==
    (pc = "done" /\ entry = PagedEntry /\ IsRows(Self.response)) =>
        /\ Returned.ok
        /\ Returned.val.result.raw_rows = Some(Self.response.result.rows)
        /\ Returned.val.paging_state = Self.response.result.paging_state_response

PagedRowsWithMorePages ==
    /\ pc = "done"
    /\ entry = PagedEntry
    /\ HasMore(Self.response)
    /\ Returned.ok
    /\ Returned.val.paging_state = HasMorePages(NumPagingStates)

\* C3: for a Result response that is not Rows, paged assembly succeeds with no
\* row set and NoMorePages, and unpaged assembly succeeds, whatever the subtype.
NonRowsResultHasNoRowsNoCursor ==
    (pc = "done" /\ IsResult(Self.response) /\ ~IsRows(Self.response)) =>
        /\ Returned.ok
        /\ ReturnedQueryResult.raw_rows = None
        /\ entry = PagedEntry => Returned.val.paging_state = NoMorePages

NonRowsResultAssembled ==
    /\ pc = "done"
    /\ entry = PagedEntry
    /\ IsResult(Self.response)
    /\ Self.response.result.tag = "Void"
    /\ Returned.ok

\* C4: for a response that is not a Result kind every entry point fails with
\* UnexpectedResponse carrying the kind of that response, and no QueryResult is
\* produced.
ExpectedKind(variant) ==
    CASE variant = "Ready"         -> "READY"
      [] variant = "Authenticate"  -> "AUTHENTICATE"
      [] variant = "AuthSuccess"   -> "AUTH_SUCCESS"
      [] variant = "AuthChallenge" -> "AUTH_CHALLENGE"
      [] variant = "Supported"     -> "SUPPORTED"
      [] variant = "Event"         -> "EVENT"

NonResultIsUnexpectedResponse ==
    (entry # "" /\ ~IsResult(Self.response)) =>
        /\ pc = "done"
        /\ pending = None
        /\ log = <<>>
        /\ Returned = Err(UnexpectedResponse(ExpectedKind(Self.response.variant)))

NonResultRejected ==
    /\ pc = "done"
    /\ entry = "into_query_result_with_unknown_coordinator"
    /\ Self.response.variant = "Supported"
    /\ ~Returned.ok

\* C5: as_set_keyspace returns the payload exactly for Result::SetKeyspace and
\* as_schema_change exactly for Result::SchemaChange, absence otherwise; a call
\* of either leaves the response, tracing id and warnings as they were.
ProjectionsExact ==
    /\ IsSome(set_keyspace) =>
           Unwrap(set_keyspace) =
               IF Self.response \in
                      {[variant |-> "Result", result |-> r] : r \in ResultSetKeyspace}
               THEN Some(Self.response.result.payload)
               ELSE None
    /\ IsSome(schema_change) =>
           Unwrap(schema_change) =
               IF Self.response \in
                      {[variant |-> "Result", result |-> r] : r \in ResultSchemaChange}
               THEN Some(Self.response.result.payload)
               ELSE None

ProjectionsReadOnly ==
    [][(set_keyspace' # set_keyspace \/ schema_change' # schema_change) =>
           (classified' = classified /\ pc' = pc /\ ret' = ret)]_vars

ProjectionsExactAndReadOnly == []ProjectionsExact /\ ProjectionsReadOnly

ProjectionsCalled ==
    /\ set_keyspace = Some(Some(1))
    /\ schema_change = Some(None)

ClassifySplitsOnError ==
    IsSome(classified) =>
        IF envelope.response.variant = "Error"
        THEN /\ Unwrap(classified) =
                    Err([kind |-> "ServerError", error |-> envelope.response.error,
                         reason |-> envelope.response.reason])
             /\ pc = "failed"
             /\ set_keyspace = None /\ schema_change = None
             /\ entry = "" /\ pending = None /\ ret = None
        ELSE /\ Unwrap(classified).ok
             /\ Self.response = envelope.response
             /\ pc # "failed"

ServerErrorSurfaced ==
    /\ pc = "failed"
    /\ envelope.response.variant = "Error"
    /\ envelope.response.error = NumDbErrors
    /\ ~Unwrap(classified).ok

\* C8: into_query_result(C) and into_query_result_with_unknown_coordinator on
\* equal inputs both succeed or both fail with the same error kind, and on
\* success their QueryResults agree on row set, tracing id and warnings.
SameOutcomeButCoordinator(a, b) ==
    /\ a.ok = b.ok
    /\ a.ok => /\ a.val.raw_rows = b.val.raw_rows
               /\ a.val.tracing_id = b.val.tracing_id
               /\ a.val.warnings = b.val.warnings
    /\ ~a.ok => a.err = b.err

UnpagedEntryPointsAgree ==
    /\ (pc = "done" /\ entry = "into_query_result") =>
           SameOutcomeButCoordinator(
               Returned, into_query_result_with_unknown_coordinator(Self))
    /\ (pc = "done" /\ entry = "into_query_result_with_unknown_coordinator") =>
           \A c \in Coordinators :
               SameOutcomeButCoordinator(Returned, into_query_result(Self, c))

UnknownCoordinatorRowsReturned ==
    /\ pc = "done"
    /\ entry = "into_query_result_with_unknown_coordinator"
    /\ Returned.ok
    /\ IsSome(Returned.val.raw_rows)
    /\ Returned.val.request_coordinator = None

\* C9: whenever an unpaged conversion returns NonfinishedPagingState, the error
\* diagnostic was emitted in an earlier step of that execution; and a
\* diagnostic is emitted only in executions that return NonfinishedPagingState.
ErrorLog == <<[level |-> "ERROR", message |-> "nonfinished paging state"]>>

DiagnosticOnlyForNonfinished ==
    /\ (IsSome(ret) /\ Returned = Err(NonfinishedPagingState)) => log = ErrorLog
    /\ log # <<>> =>
           /\ log = ErrorLog
           /\ entry \in UnpagedEntries
           /\ pc \in {"return_err", "done"}
           /\ pc = "done" => Returned = Err(NonfinishedPagingState)

DiagnosticBeforeFailure ==
    [][(ret = None /\ ret' = Some(Err(NonfinishedPagingState))) =>
           (log = ErrorLog /\ log' = log)]_vars

LogThenFail == []DiagnosticOnlyForNonfinished /\ DiagnosticBeforeFailure

DiagnosticEmittedNotYetFailed ==
    /\ pc = "return_err"
    /\ log = ErrorLog
    /\ ret = None

\* C10: the tracing id and the warnings of the envelope reach the
\* NonErrorQueryResponse and every successfully assembled QueryResult
\* unchanged; the custom payload is dropped at classification and no later
\* value depends on it.
WithoutPayload == [envelope EXCEPT !.custom_payload = None]

MetadataPassesThrough ==
    /\ (IsSome(classified) /\ Unwrap(classified).ok) =>
           /\ Self.tracing_id = envelope.tracing_id
           /\ Self.warnings = envelope.warnings
           /\ DOMAIN Self = {"response", "tracing_id", "warnings"}
           /\ Unwrap(classified) = into_non_error_query_response(WithoutPayload)
    /\ (pc = "done" /\ Returned.ok) =>
           /\ ReturnedQueryResult.tracing_id = envelope.tracing_id
           /\ ReturnedQueryResult.warnings = envelope.warnings
           /\ DOMAIN ReturnedQueryResult =
                  {"raw_rows", "request_coordinator", "tracing_id", "warnings"}

MetadataCarriedWithPayload ==
    /\ pc = "done"
    /\ Returned.ok
    /\ envelope.custom_payload # None
    /\ envelope.tracing_id = Some(NumUuids)
    /\ envelope.warnings = <<2, 1>>
    /\ ReturnedQueryResult.warnings = <<2, 1>>

====
